---- MODULE Spec2Model ----
(***************************************************************************)
(* The packaging manifest of the distribution `mymodule` (setup.py) and    *)
(* the life cycle it declares: the keyword arguments of setup(), the       *)
(* installation that registers the console script `mydaemon`, and the      *)
(* invocations of commands from a shell.  The manifest is declarative; its *)
(* meaning is the console_scripts contract of the packaging tool: every    *)
(* entry 'name = module:attr' becomes an executable `name` on the search   *)
(* path which imports `module` and calls `attr` with no arguments.  The    *)
(* repository holds setup.py only: no myscript.py is there to be copied,   *)
(* and the import then fails before anything is called.  A source tree     *)
(* that does hold the module is modelled beside it; of myscript.main only  *)
(* the call is modelled, and what it returns is a nondeterministic choice. *)
(***************************************************************************)
EXTENDS Naturals, Sequences, FiniteSets, TLC

VARIABLES manifest,   \* the keyword arguments setup() was called with
          stage,      \* "declared" until the package is installed
          site,       \* the metadata of the installed distribution, or NoDist
          path,       \* the executables this package put on the search path
          tree,       \* the module files that lie beside setup.py
          importable, \* the modules the installation copied
          history     \* the commands typed so far, each with what it did

vars == <<manifest, stage, site, path, tree, importable, history>>

(***************************************************************************)
(* Bounds of the model.                                                    *)
(***************************************************************************)
MaxInvocations == 3
MaxArgs == 1

(***************************************************************************)
(* setup.py, lines 3-12: the keyword arguments.  A string that the         *)
(* packaging tool parses (an entry-point line) is kept as its sequence of  *)
(* characters.                                                             *)
(***************************************************************************)
name == "mymodule"

version == "0.1"

description == "My Awesome Python Module"

py_modules_wrong == <<"mymodule">>

py_modules == <<"myscript">>

\* 'mydaemon = myscript:main'
mydaemon_line ==
    <<"m","y","d","a","e","m","o","n"," ","="," ",
      "m","y","s","c","r","i","p","t",":","m","a","i","n">>

\* 'myd = myscript:run'
second_line ==
    <<"m","y","d"," ","="," ",
      "m","y","s","c","r","i","p","t",":","r","u","n">>

entry_points_two == [console_scripts |-> <<mydaemon_line, second_line>>]

entry_points == [console_scripts |-> <<mydaemon_line>>]

setup_kwargs_requires ==
    [name |-> name, version |-> version, description |-> description,
     py_modules |-> py_modules, entry_points |-> entry_points,
     install_requires |-> <<"python-daemon">>]

setup_kwargs ==
    [name |-> name, version |-> version, description |-> description,
     py_modules |-> py_modules, entry_points |-> entry_points]

(***************************************************************************)
(* The entry-point syntax 'name = module:attr': the name is what precedes  *)
(* the first '=', the object reference what follows it, both stripped of   *)
(* surrounding blanks; the reference splits at ':' into module and         *)
(* attribute.                                                              *)
(***************************************************************************)
RECURSIVE Join(_)
Join(s) == IF s = <<>> THEN "" ELSE Head(s) \o Join(Tail(s))

RECURSIVE IndexFrom(_, _, _)
IndexFrom(s, c, i) ==
    IF i > Len(s) THEN 0
    ELSE IF s[i] = c THEN i
    ELSE IndexFrom(s, c, i + 1)

IndexOf(s, c) == IndexFrom(s, c, 1)

RECURSIVE LStrip(_)
LStrip(s) == IF s # <<>> /\ Head(s) = " " THEN LStrip(Tail(s)) ELSE s

RECURSIVE RStrip(_)
RStrip(s) ==
    IF s # <<>> /\ s[Len(s)] = " " THEN RStrip(SubSeq(s, 1, Len(s) - 1)) ELSE s

Strip(s) == RStrip(LStrip(s))

ParseEntryPoint(line) ==
    LET eq    == IndexOf(line, "=")
        ename == Strip(SubSeq(line, 1, eq - 1))
        value == Strip(SubSeq(line, eq + 1, Len(line)))
        colon == IndexOf(value, ":")
    IN  [command |-> Join(ename),
         module  |-> Join(Strip(SubSeq(value, 1, colon - 1))),
         attr    |-> Join(Strip(SubSeq(value, colon + 1, Len(value))))]

Range(s) == {s[i] : i \in DOMAIN s}

\* The scripts a manifest declares in the group console_scripts.
ConsoleScripts(kw) ==
    IF "entry_points" \in DOMAIN kw
       /\ "console_scripts" \in DOMAIN kw.entry_points
    THEN {ParseEntryPoint(l) : l \in Range(kw.entry_points.console_scripts)}
    ELSE {}

(***************************************************************************)
(* What a shell user can type: a command name and a few arguments.         *)
(***************************************************************************)
Commands == {"mydaemon", "myscript"}

Args == {"-v", "stop"}

RECURSIVE SeqsUpTo(_, _)
SeqsUpTo(S, n) ==
    IF n = 0 THEN {<<>>}
    ELSE LET shorter == SeqsUpTo(S, n - 1)
         IN  shorter \cup {Append(s, a) : s \in {t \in shorter : Len(t) = n - 1},
                                         a \in S}

ArgLists == SeqsUpTo(Args, MaxArgs)

\* What main may return to the stub: unspecified, the module is absent.
ExitStatus == {"zero", "nonzero"}

\* The module files beside setup.py: none in the repository as it is; the
\* module the manifest names, where the source tree is complete.
TreeAsGiven == {}

TreeWithModule == {"myscript"}

SourceTrees == {TreeAsGiven, TreeWithModule}

NoDist == [installed |-> FALSE]

NoCall == [called |-> FALSE]

(***************************************************************************)
(* State after the manifest has been written and nothing has been run.     *)
(***************************************************************************)
Init ==
    /\ manifest = setup_kwargs
    /\ stage = "declared"
    /\ site = NoDist
    /\ path = {}
    /\ tree \in SourceTrees
    /\ importable = {}
    /\ history = <<>>

(***************************************************************************)
(* Installation: setup() runs with the keyword arguments, records the      *)
(* distribution's metadata and declared modules, copies the declared       *)
(* modules whose files exist, and writes one executable for every console  *)
(* script.  Installing again rewrites the same files.                      *)
(***************************************************************************)
InstallRewrites ==
    /\ manifest' = [manifest EXCEPT !.version = "0.2"]
    /\ stage' = "installed"
    /\ site' = [installed |-> TRUE, name |-> manifest.name,
                version |-> manifest.version,
                summary |-> manifest.description,
                modules |-> Range(manifest.py_modules)]
    /\ path' = ConsoleScripts(manifest)
    /\ importable' = Range(manifest.py_modules) \cap tree
    /\ UNCHANGED <<tree, history>>

Install ==
    /\ stage' = "installed"
    /\ site' = [installed |-> TRUE, name |-> manifest.name,
                version |-> manifest.version,
                summary |-> manifest.description,
                modules |-> Range(manifest.py_modules)]
    /\ path' = ConsoleScripts(manifest)
    /\ importable' = Range(manifest.py_modules) \cap tree
    /\ UNCHANGED <<manifest, tree, history>>

(***************************************************************************)
(* Invocation.  The shell looks the command up on the search path; the     *)
(* executable found there imports the module and calls the attribute with  *)
(* an empty argument list, whatever was typed after the command name.  If  *)
(* the module was not installed the import raises, nothing is called and   *)
(* the exit status is nonzero.                                             *)
(***************************************************************************)
Resolve(cmd) == {s \in path : s.command = cmd}

StubCall(s, argv) ==
    [called |-> TRUE, module |-> s.module, attr |-> s.attr, args |-> <<>>]

InvokeWritesFile(cmd, args) ==
    /\ Len(history) < MaxInvocations
    /\ \E s \in Resolve(cmd), rc \in ExitStatus :
          history' = Append(history,
                            IF s.module \in importable
                            THEN [command |-> cmd, argv |-> <<cmd>> \o args,
                                  call |-> StubCall(s, <<cmd>> \o args),
                                  exit |-> rc]
                            ELSE [command |-> cmd, argv |-> <<cmd>> \o args,
                                  call |-> NoCall, exit |-> "nonzero"])
    /\ importable' = importable \cup {cmd}
    /\ UNCHANGED <<manifest, stage, site, path, tree>>

Invoke(cmd, args) ==
    /\ Len(history) < MaxInvocations
    /\ \E s \in Resolve(cmd), rc \in ExitStatus :
          history' = Append(history,
                            IF s.module \in importable
                            THEN [command |-> cmd, argv |-> <<cmd>> \o args,
                                  call |-> StubCall(s, <<cmd>> \o args),
                                  exit |-> rc]
                            ELSE [command |-> cmd, argv |-> <<cmd>> \o args,
                                  call |-> NoCall, exit |-> "nonzero"])
    /\ UNCHANGED <<manifest, stage, site, path, tree, importable>>

CommandNotFound(cmd, args) ==
    /\ Len(history) < MaxInvocations
    /\ Resolve(cmd) = {}
    /\ history' = Append(history,
                         [command |-> cmd, argv |-> <<cmd>> \o args,
                          call |-> NoCall, exit |-> "not found"])
    /\ UNCHANGED <<manifest, stage, site, path, tree, importable>>

Next ==
    \/ Install
    \/ \E cmd \in Commands, args \in ArgLists : Invoke(cmd, args)
    \/ \E cmd \in Commands, args \in ArgLists : CommandNotFound(cmd, args)

Spec == Init /\ [][Next]_vars

(***************************************************************************)
(* Properties.                                                             *)
(***************************************************************************)
MainOfMyscript == [command |-> "mydaemon", module |-> "myscript", attr |-> "main"]

\* The records of the history in which an executable was found and run.
Ran == {i \in DOMAIN history : history[i].exit # "not found"}

\* C1: once the package is installed, the registered console scripts are
\* exactly one: the command mydaemon, resolving to main of module myscript.
C1_ExactlyOneEntryPoint ==
    stage = "installed" =>
        /\ path = {MainOfMyscript}
        /\ Cardinality(path) = 1
        /\ \A s \in path : s.command = "mydaemon" =>
                              s.module = "myscript" /\ s.attr = "main"

C1_Witness ==
    /\ tree = TreeAsGiven
    /\ stage = "installed"
    /\ MainOfMyscript \in path

\* C2: an executable is on the search path only once the package is
\* installed; every run of mydaemon is one call of myscript.main with an
\* empty argument list and nothing else; no call is made before installation.
C2_InstallThenInvoke ==
    /\ path # {} => stage = "installed"
    /\ stage # "installed" => Ran = {}
    /\ \A i \in DOMAIN history :
          history[i].command = "mydaemon" /\ i \in Ran =>
              history[i].call = [called |-> TRUE, module |-> "myscript",
                                 attr |-> "main", args |-> <<>>]
    /\ \A i \in DOMAIN history : history[i].call.called => i \in Ran

\* C3 as stated: setup() is passed only a name, a version, a description and
\* the entry-point mapping, and nothing else.
C3_Original ==
    DOMAIN manifest \subseteq {"name", "version", "description", "entry_points"}

\* C3 as amended: setup() is passed a name, a version, a description, the
\* list of modules (py_modules) and one mapping from a command name to a
\* callable reference, in the one group console_scripts; nothing else.
C3_OnlyFiveArguments ==
    /\ DOMAIN manifest =
          {"name", "version", "description", "py_modules", "entry_points"}
    /\ DOMAIN manifest.entry_points = {"console_scripts"}
    /\ Len(manifest.entry_points.console_scripts) = 1
    /\ Cardinality(ConsoleScripts(manifest)) = 1
    /\ stage = "installed" =>
          /\ DOMAIN site = {"installed", "name", "version", "summary", "modules"}
          /\ site.modules = Range(manifest.py_modules)
          /\ Cardinality(path) = 1

C3_Witness ==
    /\ tree = TreeAsGiven
    /\ stage = "installed"
    /\ site.installed
    /\ "py_modules" \in DOMAIN manifest
    /\ site.modules = {"myscript"}

\* C4: in every state, before and after installation and after any number
\* of invocations, the name is 'mymodule', the version '0.1', the description
\* 'My Awesome Python Module' and the entry-point mapping
\* mydaemon -> myscript:main.
C4_ManifestNeverChanges ==
    /\ manifest.name = "mymodule"
    /\ manifest.version = "0.1"
    /\ manifest.description = "My Awesome Python Module"
    /\ ConsoleScripts(manifest) = {MainOfMyscript}
    /\ site.installed =>
          /\ site.name = "mymodule"
          /\ site.version = "0.1"
          /\ site.summary = "My Awesome Python Module"

C4_Witness ==
    /\ tree = TreeAsGiven
    /\ stage = "installed"
    /\ Len(history) = MaxInvocations
    /\ Cardinality(Ran) >= 2
    /\ manifest.version = "0.1"

\* C5: every console script of the manifest targets a module that the
\* manifest lists in py_modules, and every installed command refers to a
\* module of the installed distribution.
C5_EntryPointModuleDeclared ==
    /\ \A s \in ConsoleScripts(manifest) : s.module \in Range(manifest.py_modules)
    /\ \A s \in path : site.installed /\ s.module \in site.modules

C5_Witness ==
    /\ tree = TreeAsGiven
    /\ \E s \in path : s.module = "myscript"
    /\ \E i \in Ran : history[i].command = "mydaemon"

\* C6: invoking mydaemon changes nothing the package installed or declared,
\* passes none of the command line on to main, and any two runs of it from
\* an installed state do the same whatever was typed after the command.
C6_StateNoInputs ==
    /\ \A i \in Ran : history[i].call.called => history[i].call.args = <<>>
    /\ \A i, j \in Ran :
          history[i].command = history[j].command =>
              /\ history[i].call = history[j].call
              /\ ~history[i].call.called => history[i].exit = history[j].exit

C6_StepNoState ==
    history' # history =>
        UNCHANGED <<manifest, stage, site, path, tree, importable>>

C6_NoStateNoInputs == [](C6_StateNoInputs) /\ [][C6_StepNoState]_vars

C6_Witness ==
    /\ tree = TreeAsGiven
    /\ \E i, j \in Ran :
          /\ history[i].command = "mydaemon"
          /\ history[j].command = "mydaemon"
          /\ Len(history[i].argv) = 1
          /\ Len(history[j].argv) > 1
          /\ history[i].call = history[j].call
          /\ history[i].exit = history[j].exit

====
